---- MODULE Spec2Model ----
(***************************************************************************)
(* Relationship helpers of convex-helpers (server/relationships.ts):       *)
(* getAll, getAllOrThrow, getOneFrom, getOneFromOrThrow, getManyFrom,      *)
(* getManyVia and getManyViaOrThrow, run against a document store that is  *)
(* changed by inserts and deletes between calls.                           *)
(***************************************************************************)
EXTENDS Integers, Sequences, FiniteSets, TLC

VARIABLES
    db,       \* the documents the store holds
    nextId,   \* per table, the number of the next identifier handed out
    op,       \* the helper in flight, "idle" when none is
    args,     \* its arguments
    items,    \* the list handed to asyncMap
    tasks,    \* one entry per element of items: the state of its transform
    ret,      \* the promise the helper returned to its caller
    order,    \* the indices of tasks, in the order their transforms settled
    faulty,   \* the store calls that fail when made: [call, id] records
    schema,   \* the table definition the type checker is given
    verdict,  \* what the type checker said of a call on that table
    issued,   \* how many db.get / db.system.get calls the helper in flight made
    absent    \* whether one of them has returned null

vars ==
    <<db, nextId, op, args, items, tasks, ret, order, faulty, schema, verdict,
      issued, absent>>

types == <<schema, verdict>>

(***************************************************************************)
(* Bounds of the model.                                                    *)
(***************************************************************************)
MaxDocs == 5      \* documents ever inserted into the store
MaxUsers == 2     \* of them, documents of "users"
MaxIds == 2       \* length of the ids list given to getAll / getAllOrThrow
MaxFaultDocs == 4 \* documents ever inserted where store calls may fail
MaxIndexes == 2   \* indexes declared on the table given to the type checker
MaxIndexFields == 2 \* fields in the field list of one of those indexes

(***************************************************************************)
(* The schema the example functions run against.                           *)
(***************************************************************************)
SystemTableNames == {"_storage"}

UserTableNames == {"users", "join_storage_example"}

TableNames == UserTableNames \cup SystemTableNames

Tokens == {"a", "b"}

\* DataModel[TableName]["indexes"], "by_creation_time" included.
Indexes(table) ==
    CASE table = "users" ->
           [tokenIdentifier |-> <<"tokenIdentifier">>,
            by_creation_time |-> <<"_creationTime">>]
      [] table = "join_storage_example" ->
           [storageId |-> <<"storageId">>,
            userId_storageId |-> <<"userId", "storageId">>,
            by_creation_time |-> <<"_creationTime">>]
      [] OTHER -> [by_creation_time |-> <<"_creationTime">>]

UserIndexes(table) == DOMAIN Indexes(table) \ {"by_creation_time"}

TablesWithLookups == {t \in UserTableNames : UserIndexes(t) # {}}

\* The field argument a call may pass after `value`, as a spread tuple.
FieldIfDoesntMatchIndex(table, index) ==
    IF Indexes(table)[index][1] = index
    THEN {<<>>, <<Indexes(table)[index][1]>>}
    ELSE {<<Indexes(table)[index][1]>>}

(***************************************************************************)
(* Identifiers and documents.                                              *)
(***************************************************************************)
null == [null |-> TRUE]

Id(table, n) == [table |-> table, n |-> n]

\* Identifiers of `table` handed out so far (their documents may be deleted).
IdsOf(table) == {Id(table, n) : n \in 1..(nextId[table] - 1)}

\* How many documents were ever inserted.
Inserted ==
    (nextId["users"] - 1) + (nextId["_storage"] - 1)
        + (nextId["join_storage_example"] - 1)

\* Fields of the join table that hold an Id, "_id" excluded.
IdFilePaths(table) ==
    IF table = "join_storage_example" THEN {"userId", "storageId"} ELSE {}

\* The values a lookup on the first field of an index can be given.
FieldValues(field) ==
    CASE field = "tokenIdentifier" -> Tokens
      [] field = "userId" -> IdsOf("users")
      [] field = "storageId" -> IdsOf("_storage")

(***************************************************************************)
(* Outcomes of an awaited call: a value, or a thrown error.                *)
(***************************************************************************)
Returns(v) == [ok |-> TRUE, value |-> v]

Throws(e) == [ok |-> FALSE, error |-> e]

Error(message) == [name |-> "Error", message |-> message]

(***************************************************************************)
(* Store Adapter: db.get, db.system.get, db.query(..).withIndex(..).       *)
(***************************************************************************)
Holds(d, id) == \E doc \in d : doc._id = id

DocOrNull(d, id) ==
    IF Holds(d, id) THEN CHOOSE doc \in d : doc._id = id ELSE null

\* A store call fails: the promise of db.get or db.system.get is rejected.
StoreFailure == Error([text |-> "The store call failed"])

Fails(name, id) == [call |-> name, id |-> id] \in faulty

\* db.get(id): the document or null; not applicable to a system table's id.
get(d, id) ==
    IF Fails("get", id) THEN Throws(StoreFailure)
    ELSE IF id.table \in SystemTableNames
    THEN Throws(Error([text |-> "System tables can only be accessed with db.system"]))
    ELSE Returns(DocOrNull(d, id))

\* The outcomes db.system.get can have for an id that is not a system
\* table's: the call is outside its declared interface.
ForeignIdOutcomes == {"throws", "null"}

\* db.system.get(id)
systemGet(d, id, foreign) ==
    IF Fails("systemGet", id) THEN Throws(StoreFailure)
    ELSE IF id.table \in SystemTableNames
    THEN Returns(DocOrNull(d, id))
    ELSE IF foreign = "throws"
         THEN Throws(Error([text |-> "User tables cannot be accessed with db.system"]))
         ELSE Returns(null)

\* Position of a value in the order an index keeps its keys in.
Rank(field, v) ==
    IF field = "tokenIdentifier" THEN (IF v = "a" THEN 1 ELSE 2) ELSE v.n

\* Whether the index scan yields x before y: by the fields of the index after
\* the one compared for equality, then by creation.
RECURSIVE Before(_, _, _)
Before(x, y, fields) ==
    IF fields = <<>>
    THEN x._id.n < y._id.n
    ELSE \/ Rank(fields[1], x[fields[1]]) < Rank(fields[1], y[fields[1]])
         \/ /\ x[fields[1]] = y[fields[1]]
            /\ Before(x, y, Tail(fields))

RECURSIVE Scan(_, _)
Scan(S, fields) ==
    IF S = {}
    THEN <<>>
    ELSE LET first == CHOOSE x \in S : \A y \in S \ {x} : Before(x, y, fields)
         IN  <<first>> \o Scan(S \ {first}, fields)

\* db.query(table).withIndex(index, (q) => q.eq(field, value)): the documents
\* of the table whose field equals value, in the order of the index. A
\* document without the field matches nothing.
withIndexEq(d, table, index, field, value) ==
    Scan({doc \in d : /\ doc._id.table = table
                      /\ field \in DOMAIN doc
                      /\ doc[field] = value},
         Tail(Indexes(table)[index]))

\* .unique()
unique(matches) ==
    CASE Len(matches) = 0 -> Returns(null)
      [] Len(matches) = 1 -> Returns(matches[1])
      [] OTHER -> Throws(Error([text |-> "unique() query returned more than one result"]))

\* .collect()
collect(matches) == Returns(matches)

(***************************************************************************)
(* nullThrows and the messages the helpers give it.                        *)
(***************************************************************************)
UnexpectedNull == [text |-> "Unexpected null"]

nullThrows(doc, message) ==
    IF doc = null THEN Throws(Error(message)) ELSE Returns(doc)

\* `Can't find a document in ${table} with field ${field} equal to ${value}`
CantFindIn(table, field, value) ==
    [text |-> "Can't find a document in", table |-> table, field |-> field,
     value |-> value]

\* `Can't find document ${id} referenced in ${table}'s field ${toField} for
\*  ${fieldArg[0] ?? index} equal to ${value}`
CantFindReferenced(id, table, toField, field, value) ==
    [text |-> "Can't find document", id |-> id, table |-> table,
     toField |-> toField, field |-> field, value |-> value]

\* fieldArg[0] ?? index
FieldOr(fieldArg, index) == IF fieldArg # <<>> THEN fieldArg[1] ELSE index

(***************************************************************************)
(* The types that decide which tables, indexes and field arguments a call  *)
(* may name, over any table definition t: t.fields gives each field path   *)
(* its type, t.indexes gives each index its field list.                    *)
(***************************************************************************)
FieldNames == {"userId", "storageId", "note"}

IndexNames == {"userId", "storageId", "by_note"}

\* Field lists an index can be declared with: no field twice.
FieldLists ==
    {fields \in UNION {[1..n -> FieldNames] : n \in 1..MaxIndexFields} :
        \A i, j \in DOMAIN fields : fields[i] = fields[j] => i = j}

\* DataModel[TableName]["fieldPaths"] with the type of each; "userId" and
\* "storageId" are fields that may hold an Id.
FieldTypings ==
    {[f \in FieldNames \cup {"_id", "_creationTime"} |->
        CASE f = "_id" -> "id"
          [] f = "_creationTime" -> "number"
          [] f = "note" -> "string"
          [] f = "userId" -> u
          [] f = "storageId" -> s] : u, s \in {"id", "string"}}

\* DataModel[TableName]["indexes"]: the declared ones and by_creation_time.
IndexDeclarations ==
    {[i \in DOMAIN declared \cup {"by_creation_time"} |->
        IF i = "by_creation_time" THEN <<"_creationTime">> ELSE declared[i]] :
     declared \in UNION {[names -> FieldLists] :
                            names \in {ns \in SUBSET IndexNames :
                                          Cardinality(ns) <= MaxIndexes}}}

TableDefinitions ==
    {[declared |-> TRUE, fields |-> typing, indexes |-> indexes] :
        typing \in FieldTypings, indexes \in IndexDeclarations}

\* UserIndexes of table definition t.
UserIndexesOf(t) == DOMAIN t.indexes \ {"by_creation_time"}

\* Whether t is one of TablesWithLookups.
InTablesWithLookups(t) == UserIndexesOf(t) # {}

\* The fields some user index of t starts with.
LookupFieldPaths(t) == {t.indexes[index][1] : index \in UserIndexesOf(t)}

\* A field argument that may be left out only when the index has the one
\* field it is named after.
FieldIfDoesntMatchIndexSole(t, index) ==
    IF t.indexes[index] = <<index>>
    THEN {<<>>, <<t.indexes[index][1]>>}
    ELSE {<<t.indexes[index][1]>>}

\* FieldIfDoesntMatchIndex over t: the tuples the spread argument accepts.
FieldIfDoesntMatchIndexOf(t, index) ==
    IF t.indexes[index][1] = index
    THEN {<<>>, <<t.indexes[index][1]>>}
    ELSE {<<t.indexes[index][1]>>}

\* IdFilePaths of t for any target table: the Id-typed fields but "_id".
IdFilePathsOf(t) == {f \in DOMAIN t.fields : t.fields[f] = "id" /\ f # "_id"}

\* `U extends F` for a union U of field names and one field name F.
Extends(union, field) == \A member \in union : member = field

\* LookupAndIdFilePaths with the lookup fields taken one at a time: an Id
\* field counts only when no index starts with it.
LookupAndIdFilePathsEach(t) ==
    {TRUE : f \in {g \in IdFilePathsOf(t) : g \notin LookupFieldPaths(t)}}

\* LookupAndIdFilePaths: `true` for each Id field the union of lookup fields
\* does not extend, never (the empty set) when there is none.
LookupAndIdFilePaths(t) ==
    {TRUE : f \in {g \in IdFilePathsOf(t) : ~Extends(LookupFieldPaths(t), g)}}

\* Whether t is one of JoinTables.
InJoinTables(t) == InTablesWithLookups(t) /\ LookupAndIdFilePaths(t) # {}

(***************************************************************************)
(* Index Lookup: one query each.                                           *)
(***************************************************************************)
\* getOneFrom with the field argument dropped: always the index name.
getOneFromByIndexName(d, table, index, value, fieldArg) ==
    unique(withIndexEq(d, table, index, index, value))

getOneFrom(d, table, index, value, fieldArg) ==
    LET field == FieldOr(fieldArg, index)
    IN  unique(withIndexEq(d, table, index, field, value))

\* getOneFromOrThrow without its nullThrows.
getOneFromOrThrowUnchecked(d, table, index, value, fieldArg) ==
    unique(withIndexEq(d, table, index, FieldOr(fieldArg, index), value))

getOneFromOrThrow(d, table, index, value, fieldArg) ==
    LET field == FieldOr(fieldArg, index)
        found == unique(withIndexEq(d, table, index, field, value))
    IN  IF found.ok
        THEN nullThrows(found.value, CantFindIn(table, field, value))
        ELSE found

getManyFrom(d, table, index, value, fieldArg) ==
    LET field == FieldOr(fieldArg, index)
    IN  collect(withIndexEq(d, table, index, field, value))

(***************************************************************************)
(* The transforms handed to asyncMap. A transform runs up to its first     *)
(* await when asyncMap calls it, and goes on when the awaited store call   *)
(* completes. A task is the state of one transform: the store call it      *)
(* waits for (pc), the identifier it resolves, and its outcome once        *)
(* settled.                                                                *)
(***************************************************************************)
Pending == [pending |-> TRUE]

Awaiting(call, id) == [pc |-> call, id |-> id, out |-> Pending]

Settled(id, outcome) == [pc |-> "settled", id |-> id, out |-> outcome]

\* getAll with the transform of getAllOrThrow.
getAllTransformChecked(d, id) ==
    LET got == get(d, id)
    IN  Settled(id, IF got.ok THEN nullThrows(got.value, UnexpectedNull) ELSE got)

\* getAll with a transform that answers a failing db.get with null.
getAllTransformLenient(d, id) ==
    LET got == get(d, id)
    IN  Settled(id, IF got.ok THEN got ELSE Returns(null))

\* getAll: db.get itself is the transform.
getAllTransform(d, id) == Settled(id, get(d, id))

\* getAllOrThrow with the transform of getAll.
getAllOrThrowTransformUnchecked(d, id) == Settled(id, get(d, id))

\* getAllOrThrow: async (id) => nullThrows(await db.get(id))
getAllOrThrowTransform(d, id) ==
    LET got == get(d, id)
    IN  Settled(id, IF got.ok THEN nullThrows(got.value, UnexpectedNull) ELSE got)

\* getManyVia without the try/catch around db.get.
getManyViaTryOnly(d, id) == Settled(id, get(d, id))

\* getManyVia, the try block: return await db.get(id)
getManyViaTry(d, id) ==
    LET got == get(d, id)
    IN  IF got.ok THEN Settled(id, got) ELSE Awaiting("systemGet", id)

\* getManyVia, the catch block: return await db.system.get(id)
getManyViaCatch(d, id, foreign) == Settled(id, systemGet(d, id, foreign))

\* getManyViaOrThrow, the try block without its nullThrows.
getManyViaOrThrowTryUnchecked(d, id, message) ==
    LET got == get(d, id)
    IN  IF got.ok THEN Settled(id, got) ELSE Awaiting("systemGet", id)

\* getManyViaOrThrow, the try block: return nullThrows(await db.get(id), ...)
getManyViaOrThrowTry(d, id, message) ==
    LET got == get(d, id)
        checked == IF got.ok THEN nullThrows(got.value, message) ELSE got
    IN  IF checked.ok THEN Settled(id, checked) ELSE Awaiting("systemGet", id)

\* getManyViaOrThrow, the catch block asking db.get once more.
getManyViaOrThrowCatchPrimary(d, id, foreign, message) ==
    LET got == get(d, id)
    IN  Settled(id, IF got.ok THEN nullThrows(got.value, message) ELSE got)

\* getManyViaOrThrow, the catch block:
\* return nullThrows(await db.system.get(id), ...)
getManyViaOrThrowCatch(d, id, foreign, message) ==
    LET got == systemGet(d, id, foreign)
    IN  Settled(id, IF got.ok THEN nullThrows(got.value, message) ELSE got)

(***************************************************************************)
(* asyncMap: call the transform on every element in order, collecting the  *)
(* promises, and return Promise.all of them.                               *)
(***************************************************************************)
Unsettled == [status |-> "pending"]

Fulfilled(v) == [status |-> "fulfilled", value |-> v]

Rejected(e) == [status |-> "rejected", error |-> e]

FromOutcome(outcome) ==
    IF outcome.ok THEN Fulfilled(outcome.value) ELSE Rejected(outcome.error)

\* The values of the promises in the order they settled in.
GatherAsSettled(ts, settledOrder) ==
    [k \in 1..Len(ts) |-> ts[settledOrder[k]].out.value]

\* The value Promise.all fulfils with: the values of the promises, by index.
Gather(ts, settledOrder) == [i \in 1..Len(ts) |-> ts[i].out.value]

\* Promise.all after promise i settled: rejected with the first rejection,
\* fulfilled once every promise is.
PromiseAll(before, ts, settledOrder) ==
    LET i == settledOrder[Len(settledOrder)]
    IN  IF before.status # "pending" THEN before
        ELSE IF ~ts[i].out.ok THEN Rejected(ts[i].out.error)
        ELSE IF \A k \in 1..Len(ts) : ts[k].pc = "settled"
             THEN Fulfilled(Gather(ts, settledOrder))
             ELSE before

\* The promises right after the loop of asyncMap: every transform has run up
\* to its await of db.get.
asyncMapStart(ids) == [i \in 1..Len(ids) |-> Awaiting("get", ids[i])]

\* Promise.all of no promises is fulfilled at once.
asyncMapReturn(ts) == IF Len(ts) = 0 THEN Fulfilled(<<>>) ELSE Unsettled

(***************************************************************************)
(* The state after construction: an empty store, no call in flight.        *)
(***************************************************************************)
NoCall == [status |-> "none"]

NoSchema == [declared |-> FALSE]

NoVerdict == [kind |-> "none"]

Init ==
    /\ db = {}
    /\ nextId = [t \in TableNames |-> 1]
    /\ op = "idle"
    /\ args = <<>>
    /\ items = <<>>
    /\ tasks = <<>>
    /\ ret = NoCall
    /\ order = <<>>
    /\ faulty = {}
    /\ schema = NoSchema
    /\ verdict = NoVerdict
    /\ issued = 0
    /\ absent = FALSE

call == <<op, args, items, tasks, ret, order, issued, absent>>

(***************************************************************************)
(* Writes, done by the callers of the helpers between calls.               *)
(***************************************************************************)
\* ctx.db.insert("users", { name, tokenIdentifier })
InsertUser(token) ==
    /\ op = "idle"
    /\ Inserted < MaxDocs
    /\ nextId["users"] <= MaxUsers
    /\ db' = db \cup {[_id |-> Id("users", nextId["users"]),
                       tokenIdentifier |-> token]}
    /\ nextId' = [nextId EXCEPT !["users"] = @ + 1]
    /\ UNCHANGED <<call, faulty, types>>

\* A file is stored: a document of the system table "_storage".
InsertStorage ==
    /\ op = "idle"
    /\ Inserted < MaxDocs
    /\ db' = db \cup {[_id |-> Id("_storage", nextId["_storage"])]}
    /\ nextId' = [nextId EXCEPT !["_storage"] = @ + 1]
    /\ UNCHANGED <<call, faulty, types>>

\* ctx.db.insert("join_storage_example", { userId, storageId })
InsertJoin(userId, storageId) ==
    /\ op = "idle"
    /\ Inserted < MaxDocs
    /\ db' = db \cup {[_id |-> Id("join_storage_example",
                                  nextId["join_storage_example"]),
                       userId |-> userId,
                       storageId |-> storageId]}
    /\ nextId' = [nextId EXCEPT !["join_storage_example"] = @ + 1]
    /\ UNCHANGED <<call, faulty, types>>

\* ctx.db.delete(id)
Delete(id) ==
    /\ op = "idle"
    /\ Holds(db, id)
    /\ db' = {doc \in db : doc._id # id}
    /\ UNCHANGED <<nextId, call, faulty, types>>

(***************************************************************************)
(* Calls of the helpers.                                                   *)
(***************************************************************************)
SeqsUpTo(S, n) == UNION {[1..k -> S] : k \in 0..n}

\* asyncMap(list, transform) called by helper `name`.
StartAsyncMap(name, a, list, ids) ==
    /\ op' = name
    /\ args' = a
    /\ items' = list
    /\ tasks' = asyncMapStart(ids)
    /\ ret' = asyncMapReturn(asyncMapStart(ids))
    /\ order' = <<>>
    /\ issued' = Len(ids)
    /\ absent' = FALSE
    /\ UNCHANGED <<db, nextId, faulty, types>>

\* A helper that is one query: its promise settles with the query.
StartLookup(name, a, outcome) ==
    /\ op' = name
    /\ args' = a
    /\ items' = <<>>
    /\ tasks' = <<>>
    /\ ret' = FromOutcome(outcome)
    /\ order' = <<>>
    /\ UNCHANGED <<db, nextId, faulty, types, issued, absent>>

CallGetAll(ids) ==
    /\ op = "idle"
    /\ StartAsyncMap("getAll", [ids |-> ids], ids, ids)

CallGetAllOrThrow(ids) ==
    /\ op = "idle"
    /\ StartAsyncMap("getAllOrThrow", [ids |-> ids], ids, ids)

LookupArgs(table, index, value, fieldArg) ==
    [table |-> table, index |-> index, value |-> value, fieldArg |-> fieldArg]

CallGetOneFrom(table, index, value, fieldArg) ==
    /\ op = "idle"
    /\ StartLookup("getOneFrom", LookupArgs(table, index, value, fieldArg),
                   getOneFrom(db, table, index, value, fieldArg))

CallGetOneFromOrThrow(table, index, value, fieldArg) ==
    /\ op = "idle"
    /\ StartLookup("getOneFromOrThrow", LookupArgs(table, index, value, fieldArg),
                   getOneFromOrThrow(db, table, index, value, fieldArg))

CallGetManyFrom(table, index, value, fieldArg) ==
    /\ op = "idle"
    /\ StartLookup("getManyFrom", LookupArgs(table, index, value, fieldArg),
                   getManyFrom(db, table, index, value, fieldArg))

ViaArgs(table, toField, index, value, fieldArg) ==
    [table |-> table, toField |-> toField, index |-> index, value |-> value,
     fieldArg |-> fieldArg]

\* const id = link[toField], for every link
ToIds(links, toField) == [k \in 1..Len(links) |-> links[k][toField]]

CallGetManyVia(table, toField, index, value, fieldArg) ==
    /\ op = "idle"
    /\ LET links == getManyFrom(db, table, index, value, fieldArg).value
       IN  StartAsyncMap("getManyVia",
                         ViaArgs(table, toField, index, value, fieldArg),
                         links, ToIds(links, toField))

CallGetManyViaOrThrow(table, toField, index, value, fieldArg) ==
    /\ op = "idle"
    /\ LET links == getManyFrom(db, table, index, value, fieldArg).value
       IN  StartAsyncMap("getManyViaOrThrow",
                         ViaArgs(table, toField, index, value, fieldArg),
                         links, ToIds(links, toField))

(***************************************************************************)
(* Store calls complete, in any order, and the transforms go on.           *)
(***************************************************************************)
ViaMessage(id) ==
    CantFindReferenced(id, args.table, args.toField,
                       FieldOr(args.fieldArg, args.index), args.value)

\* Transform i went on to the state `now`.
Advance(i, now) ==
    /\ tasks' = [tasks EXCEPT ![i] = now]
    /\ order' = IF now.pc = "settled" THEN Append(order, i) ELSE order
    /\ ret' = IF now.pc = "settled" THEN PromiseAll(ret, tasks', order') ELSE ret
    /\ UNCHANGED <<db, nextId, op, args, items, faulty, types>>

\* The db.get awaited by transform i completes.
GetCompletes(i) ==
    /\ i \in 1..Len(tasks)
    /\ tasks[i].pc = "get"
    /\ LET id == tasks[i].id
       IN  \/ op = "getAll" /\ Advance(i, getAllTransform(db, id))
           \/ op = "getAllOrThrow" /\ Advance(i, getAllOrThrowTransform(db, id))
           \/ op = "getManyVia" /\ Advance(i, getManyViaTry(db, id))
           \/ op = "getManyViaOrThrow"
              /\ Advance(i, getManyViaOrThrowTry(db, id, ViaMessage(id)))
    /\ absent' = (absent \/ get(db, tasks[i].id) = Returns(null))
    /\ issued' = IF tasks'[i].pc = "systemGet" THEN issued + 1 ELSE issued

\* The db.system.get awaited by transform i completes.
SystemGetCompletes(i, foreign) ==
    /\ i \in 1..Len(tasks)
    /\ tasks[i].pc = "systemGet"
    /\ LET id == tasks[i].id
       IN  \/ op = "getManyVia" /\ Advance(i, getManyViaCatch(db, id, foreign))
           \/ op = "getManyViaOrThrow"
              /\ Advance(i, getManyViaOrThrowCatch(db, id, foreign, ViaMessage(id)))
    /\ absent' = (absent \/ systemGet(db, tasks[i].id, foreign) = Returns(null))
    /\ UNCHANGED issued

\* The caller has the result and every transform has run to its end.
Return ==
    /\ op # "idle"
    /\ ret.status # "pending"
    /\ \A i \in 1..Len(tasks) : tasks[i].pc = "settled"
    /\ op' = "idle"
    /\ args' = <<>>
    /\ items' = <<>>
    /\ tasks' = <<>>
    /\ ret' = NoCall
    /\ order' = <<>>
    /\ faulty' = {}
    /\ issued' = 0
    /\ absent' = FALSE
    /\ UNCHANGED <<db, nextId, types>>

\* From now on, and until the next helper returns, the store call `name`
\* made for `id` fails.
StoreFails(name, id) ==
    /\ op = "idle"
    /\ faulty = {}
    /\ faulty' = {[call |-> name, id |-> id]}
    /\ UNCHANGED <<db, nextId, call, types>>

\* A schema with one of the table definitions is compiled.
DefineTable ==
    /\ schema = NoSchema
    /\ schema' \in TableDefinitions
    /\ UNCHANGED <<db, nextId, call, faulty, verdict>>

\* A call getOneFrom(db, table, index, value, ...fieldArg) on the table
\* defined is type checked; `field` is what line 117 makes of fieldArg.
TypeCheckLookup(index, fieldArg) ==
    /\ schema # NoSchema
    /\ verdict = NoVerdict
    /\ index \in UserIndexesOf(schema)
    /\ verdict' = [kind |-> "lookup", index |-> index, fieldArg |-> fieldArg,
                   accepted |-> fieldArg \in FieldIfDoesntMatchIndexOf(schema, index),
                   field |-> FieldOr(fieldArg, index)]
    /\ UNCHANGED <<db, nextId, call, faulty, schema>>

\* A call getManyVia(db, table, ...) with the table defined as the join
\* table is type checked.
TypeCheckJoin ==
    /\ schema # NoSchema
    /\ verdict = NoVerdict
    /\ verdict' = [kind |-> "join", accepted |-> InJoinTables(schema)]
    /\ UNCHANGED <<db, nextId, call, faulty, schema>>

(***************************************************************************)
(* Specifications. The store is the same in all of them; each runs one     *)
(* family of helpers against it.                                           *)
(***************************************************************************)
\* The token of the users inserted where no helper reads it.
SomeToken == CHOOSE token \in Tokens : TRUE

Writes(tokens) ==
    \/ \E token \in tokens : InsertUser(token)
    \/ InsertStorage
    \/ \E u \in IdsOf("users"), s \in IdsOf("_storage") : InsertJoin(u, s)
    \/ \E doc \in db : Delete(doc._id)

BatchCalls ==
    \E ids \in SeqsUpTo(IdsOf("users"), MaxIds) :
        CallGetAll(ids) \/ CallGetAllOrThrow(ids)

LookupCalls ==
    \E table \in TablesWithLookups :
    \E index \in UserIndexes(table) :
    \E value \in FieldValues(Indexes(table)[index][1]) :
    \E fieldArg \in FieldIfDoesntMatchIndex(table, index) :
        \/ CallGetOneFrom(table, index, value, fieldArg)
        \/ CallGetOneFromOrThrow(table, index, value, fieldArg)
        \/ CallGetManyFrom(table, index, value, fieldArg)

JoinCalls ==
    \E table \in TablesWithLookups :
    \E index \in UserIndexes(table) :
    \E value \in FieldValues(Indexes(table)[index][1]) :
    \E fieldArg \in FieldIfDoesntMatchIndex(table, index) :
    \E toField \in IdFilePaths(table) :
        \/ CallGetManyVia(table, toField, index, value, fieldArg)
        \/ CallGetManyViaOrThrow(table, toField, index, value, fieldArg)

Completions ==
    \/ \E i \in 1..Len(tasks) : GetCompletes(i)
    \/ \E i \in 1..Len(tasks) :
       \E foreign \in (IF tasks[i].id.table \in SystemTableNames
                       THEN {"null"} ELSE ForeignIdOutcomes) :
          SystemGetCompletes(i, foreign)

\* Index Lookup against a store written between the calls.
NextLookup == Writes(Tokens) \/ LookupCalls \/ Return

SpecLookup == Init /\ [][NextLookup]_vars

\* Batch Fetch and Join Traversal: the helpers that go through asyncMap.
NextAsync == Writes({SomeToken}) \/ BatchCalls \/ JoinCalls \/ Completions \/ Return

SpecAsync == Init /\ [][NextAsync]_vars

\* The store calls a fault is put on: db.get of a user, db.system.get of a
\* stored file.
Faults ==
    \/ \E id \in IdsOf("users") : StoreFails("get", id)
    \/ \E id \in IdsOf("_storage") : StoreFails("systemGet", id)

\* The same helpers against a store one call of which fails.
NextFault ==
    \/ Writes({SomeToken}) /\ Inserted' <= MaxFaultDocs
    \/ Faults
    \/ BatchCalls
    \/ JoinCalls
    \/ Completions
    \/ Return

SpecFault == Init /\ [][NextFault]_vars

\* The type checker on every table definition within the bounds.
NextTypes ==
    \/ DefineTable
    \/ \E index \in IndexNames :
       \E fieldArg \in {<<>>} \cup {<<f>> : f \in FieldNames} :
           TypeCheckLookup(index, fieldArg)
    \/ TypeCheckJoin

SpecTypes == Init /\ [][NextTypes]_vars

Next == NextLookup \/ NextAsync \/ Faults \/ NextTypes

Spec == Init /\ [][Next]_vars

(***************************************************************************)
(* What a helper returns when every store call of it has completed.        *)
(***************************************************************************)
\* The list getAll(ids) fulfils with on store d.
getAll(d, ids) ==
    Gather([i \in 1..Len(ids) |-> getAllTransform(d, ids[i])], <<>>)

\* The transform of getManyVia run to its end: the catch block is entered
\* only when db.get threw.
getManyViaTransform(d, id) ==
    LET tried == getManyViaTry(d, id)
    IN  IF tried.pc = "settled" THEN tried
        ELSE getManyViaCatch(d, id, "throws")

\* The list getManyVia fulfils with on store d.
getManyVia(d, table, toField, index, value, fieldArg) ==
    LET links == getManyFrom(d, table, index, value, fieldArg).value
    IN  Gather([k \in 1..Len(links) |->
                   getManyViaTransform(d, links[k][toField])], <<>>)

(***************************************************************************)
(* Properties.                                                             *)
(***************************************************************************)
Range(seq) == {seq[i] : i \in 1..Len(seq)}

\* The caller of helper `name` has its result or its error.
Done(name) == op = name /\ ret.status # "pending"

\* An error raised by nullThrows: a record that was required is missing.
MissingRecord(e) ==
    e.message.text \in {"Unexpected null", "Can't find a document in",
                        "Can't find document"}

\* C1: getAll(ids) returns a list as long as ids whose element i is the
\* store's document for ids[i], and is null exactly when the store holds no
\* document for ids[i]; ids may be empty or repeat an identifier.
C1_GetAllByPosition ==
    Done("getAll") =>
        /\ ret.status = "fulfilled"
        /\ Len(ret.value) = Len(args.ids)
        /\ \A i \in 1..Len(args.ids) :
              /\ ret.value[i] = DocOrNull(db, args.ids[i])
              /\ ret.value[i] = null <=> ~Holds(db, args.ids[i])

\* getAll returned a list with one document found and one missing.
C1_Witness ==
    /\ Done("getAll")
    /\ ret.status = "fulfilled"
    /\ \E i, j \in 1..Len(args.ids) :
          /\ ret.value[i] = null
          /\ ret.value[j] # null

\* C2: getAllOrThrow(ids) succeeds exactly when no element of getAll(ids) is
\* null, and then returns the list getAll(ids) returns; otherwise it ends in
\* an error, with no list.
C2_GetAllOrThrowIffNoNull ==
    Done("getAllOrThrow") =>
        /\ ret.status = "fulfilled" <=>
              \A i \in 1..Len(args.ids) : getAll(db, args.ids)[i] # null
        /\ ret.status = "fulfilled" => ret.value = getAll(db, args.ids)
        /\ ret.status # "fulfilled" =>
              ret.status = "rejected" /\ DOMAIN ret = {"status", "error"}

\* getAllOrThrow failed on a list that also names a document the store holds.
C2_Witness ==
    /\ Done("getAllOrThrow")
    /\ ret.status = "rejected"
    /\ \E i \in 1..Len(args.ids) : Holds(db, args.ids[i])

\* C3: when getAllOrThrow(ids) fails for a missing document, its error is a
\* "missing record" error that carries the offending identifier, an element
\* of ids the store does not hold.
C3_ErrorCarriesMissingId ==
    Done("getAllOrThrow") /\ ret.status = "rejected" =>
        /\ MissingRecord(ret.error)
        /\ "id" \in DOMAIN ret.error.message
        /\ ret.error.message.id \in Range(args.ids)
        /\ ~Holds(db, ret.error.message.id)

\* The documents of `table` whose `field` equals `value`.
Matching(table, field, value) ==
    {doc \in db : /\ doc._id.table = table
                  /\ field \in DOMAIN doc
                  /\ doc[field] = value}

\* C4: after any inserts and deletes, getOneFrom(table, index, value, field?)
\* returns null exactly when no document has the resolved field (the field
\* given, else the index name) equal to value, and returns the matching
\* document exactly when one document has; when several have, the call ends
\* in an error rather than in a document picked silently.
C4_GetOneFromByMatches ==
    Done("getOneFrom") =>
        LET field == IF args.fieldArg # <<>> THEN args.fieldArg[1] ELSE args.index
            matches == Matching(args.table, field, args.value)
        IN  /\ ret = Fulfilled(null) <=> matches = {}
            /\ (ret.status = "fulfilled" /\ ret.value # null) <=>
                  Cardinality(matches) = 1
            /\ Cardinality(matches) = 1 => ret.value \in matches
            /\ Cardinality(matches) > 1 =>
                  ret.status = "rejected" /\ ~MissingRecord(ret.error)

\* getOneFrom ended in an error on two documents with the value looked up,
\* in a store a document was deleted from.
C4_Witness ==
    /\ Done("getOneFrom")
    /\ ret.status = "rejected"
    /\ Cardinality(Matching(args.table, args.index, args.value)) > 1
    /\ Cardinality(db) < Inserted

\* What C5 says of one call in flight.
C5_Call ==
    Done("getOneFromOrThrow") =>
        LET field == IF args.fieldArg # <<>> THEN args.fieldArg[1] ELSE args.index
            one == getOneFrom(db, args.table, args.index, args.value, args.fieldArg)
            missing == Rejected(Error(CantFindIn(args.table, field, args.value)))
        IN  /\ (one.ok /\ one.value # null) => ret = Fulfilled(one.value)
            /\ ret = missing <=> (one.ok /\ one.value = null)

\* What C5 says of a delete: a call that returned the deleted document, the
\* only one with its value, raises "missing record" after the delete.
C5_Delete ==
    \A table \in TablesWithLookups :
    \A index \in UserIndexes(table) :
    \A value \in FieldValues(Indexes(table)[index][1]) :
    \A fieldArg \in FieldIfDoesntMatchIndex(table, index) :
        LET before == getOneFromOrThrow(db, table, index, value, fieldArg)
            after == getOneFromOrThrow(db', table, index, value, fieldArg)
        IN  (before.ok /\ db' = db \ {before.value}) =>
                after = Throws(Error(CantFindIn(table, FieldOr(fieldArg, index),
                                                value)))

\* C5: getOneFromOrThrow returns the document getOneFrom returns whenever
\* getOneFrom returns one, and raises a "missing record" error naming the
\* table, the resolved field and the value exactly when getOneFrom returns
\* null; once the only matching document is deleted, the call that succeeded
\* before raises.
C5_GetOneFromOrThrow == []C5_Call /\ [][C5_Delete]_vars

\* getOneFromOrThrow raised "missing record" for a token of "users" after a
\* user was deleted.
C5_Witness ==
    /\ Done("getOneFromOrThrow")
    /\ args.table = "users"
    /\ ret = Rejected(Error(CantFindIn("users", "tokenIdentifier", args.value)))
    /\ \E id \in IdsOf("users") : ~Holds(db, id)

\* Whether db.get or, failing that, db.system.get yields a document for id.
Resolves(id) ==
    \/ get(db, id).ok /\ get(db, id).value # null
    \/ \E foreign \in ForeignIdOutcomes :
          /\ systemGet(db, id, foreign).ok
          /\ systemGet(db, id, foreign).value # null

\* The join records of the call in flight, as getManyFrom returns them.
JoinRecords ==
    getManyFrom(db, args.table, args.index, args.value, args.fieldArg).value

\* C6: getManyVia returns one element per join record getManyFrom returns,
\* in that order, none dropped; element k is null exactly when neither db.get
\* nor db.system.get resolves the identifier at toField of join record k, and
\* is the resolved document otherwise.
C6_GetManyViaPerJoinRecord ==
    Done("getManyVia") =>
        /\ ret.status = "fulfilled"
        /\ Len(ret.value) = Len(JoinRecords)
        /\ \A k \in 1..Len(JoinRecords) :
              LET id == JoinRecords[k][args.toField]
              IN  /\ ret.value[k] = null <=> ~Resolves(id)
                  /\ Resolves(id) => ret.value[k] = DocOrNull(db, id)

\* getManyVia returned a null and a document for two join records.
C6_Witness ==
    /\ Done("getManyVia")
    /\ ret.status = "fulfilled"
    /\ \E j, k \in 1..Len(ret.value) :
          /\ ret.value[j] = null
          /\ ret.value[k] # null

\* C7: getManyViaOrThrow raises exactly when getManyVia, called with the same
\* arguments on the same store, returns a list with a null in it; when it
\* does not raise it returns the list getManyVia returns.
C7_GetManyViaOrThrowIffNull ==
    Done("getManyViaOrThrow") =>
        LET via == getManyVia(db, args.table, args.toField, args.index,
                              args.value, args.fieldArg)
        IN  /\ ret.status = "rejected" <=> \E k \in 1..Len(via) : via[k] = null
            /\ ret.status = "fulfilled" => ret.value = via

\* getManyViaOrThrow raised on two join records of which one has its target.
C7_Witness ==
    /\ Done("getManyViaOrThrow")
    /\ ret.status = "rejected"
    /\ Len(items) = 2
    /\ \E k \in 1..Len(items) : Holds(db, items[k][args.toField])

\* C8: when getManyViaOrThrow fails for a target neither db.get nor
\* db.system.get resolved, the error the caller gets is the "missing record"
\* error naming the join table, the target field and the value looked up, and
\* no error of the fallback attempt.
C8_MissingRecordReachesCaller ==
    Done("getManyViaOrThrow") /\ ret.status = "rejected" =>
        \E k \in 1..Len(items) :
            /\ ~Resolves(items[k][args.toField])
            /\ ret.error = Error(CantFindReferenced(
                               items[k][args.toField], args.table, args.toField,
                               FieldOr(args.fieldArg, args.index), args.value))

\* Join record k of the call in flight points at a system table's document
\* the store holds.
SystemTarget(k) ==
    /\ items[k][args.toField].table \in SystemTableNames
    /\ Holds(db, items[k][args.toField])

\* C9: a join record whose toField holds a system table's identifier is
\* resolved through db.system.get: when the system table holds the document,
\* the element of getManyVia is that document, and getManyViaOrThrow, all of
\* whose join records are such, does not raise and returns the documents.
C9_SystemTargetsResolve ==
    /\ Done("getManyVia") =>
          \A k \in 1..Len(items) :
              SystemTarget(k) =>
                  /\ ret.status = "fulfilled"
                  /\ ret.value[k] = DocOrNull(db, items[k][args.toField])
                  /\ ret.value[k] # null
    /\ (Done("getManyViaOrThrow") /\ \A k \in 1..Len(items) : SystemTarget(k)) =>
          /\ ret.status = "fulfilled"
          /\ \A k \in 1..Len(items) :
                ret.value[k] = DocOrNull(db, items[k][args.toField])

\* getManyViaOrThrow returned the stored files of two join records.
C9_Witness ==
    /\ Done("getManyViaOrThrow")
    /\ ret.status = "fulfilled"
    /\ Len(items) = 2
    /\ \A k \in 1..Len(items) : SystemTarget(k)

\* The identifier the transform of element i resolves.
TargetId(i) ==
    IF op \in {"getAll", "getAllOrThrow"} THEN items[i] ELSE items[i][args.toField]

\* C10: whatever the order the store calls of getAll, getAllOrThrow,
\* getManyVia and getManyViaOrThrow complete in, the list returned has at
\* position i the result of the store call made for element i of the input
\* (of the join records, for the last two).
C10_OrderOfInput ==
    (op \in {"getAll", "getAllOrThrow", "getManyVia", "getManyViaOrThrow"}
        /\ ret.status = "fulfilled") =>
        /\ Len(ret.value) = Len(items)
        /\ \A i \in 1..Len(items) :
              /\ tasks[i].id = TargetId(i)
              /\ ret.value[i] = tasks[i].out.value
              /\ ret.value[i] = DocOrNull(db, TargetId(i))

\* getManyVia returned two different elements whose store calls completed in
\* the opposite order.
C10_Witness ==
    /\ op = "getManyVia"
    /\ ret.status = "fulfilled"
    /\ order = <<2, 1>>
    /\ ret.value[1] # ret.value[2]

\* Helper `name` has its result or error and all its transforms have ended.
Finished(name) ==
    /\ Done(name)
    /\ \A i \in 1..Len(tasks) : tasks[i].pc = "settled"

\* The elements of the call in flight a failing store call is made for.
FaultyElements ==
    {i \in 1..Len(tasks) : \E f \in faulty : f.id = tasks[i].id}

\* What C11 says, as the claim has it: the OrThrow helpers fail, getAll and
\* getManyVia return the whole list with null at the element's position.
C11_FailureByVariant ==
    \A name \in {"getAll", "getAllOrThrow", "getManyVia", "getManyViaOrThrow"} :
        (Finished(name) /\ FaultyElements # {}) =>
            IF name \in {"getAllOrThrow", "getManyViaOrThrow"}
            THEN ret.status = "rejected"
            ELSE /\ ret.status = "fulfilled"
                 /\ Len(ret.value) = Len(items)
                 /\ \A i \in FaultyElements : ret.value[i] = null

\* C11 (amended): when a store call made for one element fails,
\* getAllOrThrow and getManyViaOrThrow fail, and so does getAll, with the
\* store's error; getManyVia fails when the failing call is db.system.get,
\* and when it is db.get it goes on to db.system.get for the element and
\* either fails or returns the whole list with null at the element's
\* position.
C11_FailureFailsTheCall ==
    /\ (Finished("getAll") /\ FaultyElements # {}) =>
          ret = Rejected(StoreFailure)
    /\ (Finished("getAllOrThrow") /\ FaultyElements # {}) =>
          ret.status = "rejected"
    /\ (Finished("getManyViaOrThrow") /\ FaultyElements # {}) =>
          ret.status = "rejected"
    /\ (Finished("getManyVia") /\ FaultyElements # {}) =>
          \/ ret.status = "rejected"
          \/ /\ \A f \in faulty : f.call = "get"
             /\ ret.status = "fulfilled"
             /\ Len(ret.value) = Len(items)
             /\ \A i \in FaultyElements : ret.value[i] = null
    /\ (Finished("getManyVia") /\ FaultyElements # {}
           /\ \E f \in faulty : f.call = "systemGet") =>
          ret = Rejected(StoreFailure)

\* getAll failed on two identifiers: the db.get of one failed, the document
\* of the other is in the store.
C11_Witness ==
    /\ Finished("getAll")
    /\ ret = Rejected(StoreFailure)
    /\ Len(items) = 2
    /\ \E i \in 1..Len(items) : i \notin FaultyElements /\ Holds(db, items[i])

\* What C12 says, as the claim has it: the field argument may be left out
\* exactly when the index's field list is the index's name alone, and when
\* it must be given it is any of the index's fields.
C12_FieldOptionalIffSoleField ==
    verdict.kind = "lookup" =>
        LET fields == schema.indexes[verdict.index]
        IN  /\ verdict.fieldArg = <<>> =>
                  (verdict.accepted <=> fields = <<verdict.index>>)
            /\ (verdict.fieldArg # <<>> /\ fields # <<verdict.index>>) =>
                  (verdict.accepted <=> verdict.fieldArg[1] \in Range(fields))
            /\ (verdict.fieldArg = <<>> /\ verdict.accepted) =>
                  verdict.field = verdict.index

\* C12 (amended): the field argument may be left out exactly when the first
\* field of the index's field list is the index's name, however many fields
\* follow; a field argument that is given must be the index's first field;
\* when it is left out the lookup field is the index name, which is that
\* first field.
C12_FieldOptionalIffFirstField ==
    verdict.kind = "lookup" =>
        LET fields == schema.indexes[verdict.index]
        IN  /\ verdict.fieldArg = <<>> =>
                  (verdict.accepted <=> fields[1] = verdict.index)
            /\ verdict.fieldArg # <<>> =>
                  (verdict.accepted <=> verdict.fieldArg[1] = fields[1])
            /\ (verdict.fieldArg = <<>> /\ verdict.accepted) =>
                  /\ verdict.field = verdict.index
                  /\ verdict.field = fields[1]

\* A call that leaves the field out is accepted on an index of two fields
\* named after the first.
C12_Witness ==
    /\ verdict.kind = "lookup"
    /\ verdict.fieldArg = <<>>
    /\ verdict.accepted
    /\ Len(schema.indexes[verdict.index]) = 2
    /\ verdict.field = schema.indexes[verdict.index][1]

\* The Id-typed fields of the table defined, "_id" left out, and the
\* first fields of its declared indexes.
IdFields == {f \in DOMAIN schema.fields : schema.fields[f] = "id"} \ {"_id"}

FirstFields ==
    {schema.indexes[index][1] : index \in DOMAIN schema.indexes \ {"by_creation_time"}}

\* What C13 says, as the claim has it: a table is a join table exactly when
\* it has a declared index and an Id field that no index uses for lookup.
C13_JoinIffUnindexedId ==
    verdict.kind = "join" =>
        (verdict.accepted <=>
            /\ DOMAIN schema.indexes # {"by_creation_time"}
            /\ \E f \in IdFields : f \notin FirstFields)

\* C13 (amended): a table is a join table exactly when it has a declared
\* index and an Id field, other than "_id", that is not the one field all
\* its declared indexes start with; it is rejected when it has no Id field,
\* or one Id field only that every declared index starts with.
C13_JoinIffIdNotSoleLookup ==
    verdict.kind = "join" =>
        /\ verdict.accepted <=>
              /\ DOMAIN schema.indexes # {"by_creation_time"}
              /\ \E f \in IdFields : FirstFields # {f}
        /\ (DOMAIN schema.indexes # {"by_creation_time"} /\ ~verdict.accepted) =>
              \/ IdFields = {}
              \/ Cardinality(IdFields) = 1 /\ FirstFields = IdFields

\* A table is accepted as join table whose Id fields are "userId" and
\* "storageId" and whose two indexes start with one of them each.
C13_Witness ==
    /\ verdict.kind = "join"
    /\ verdict.accepted
    /\ IdFields = {"userId", "storageId"}
    /\ FirstFields = IdFields

\* A step of an OrThrow helper at whose end a store call of the helper has
\* returned null makes no further store call.
C14_Step ==
    (op \in {"getAllOrThrow", "getManyViaOrThrow"} /\ absent') => issued' = issued

\* C14: in getAllOrThrow and getManyViaOrThrow, once a store call made for
\* some element has returned null, the helper issues no further db.get or
\* db.system.get.
C14_NoCallAfterAbsent == [][C14_Step]_vars

====
